---- MODULE Spec2Model ----
(***************************************************************************)
(* Model of email_scraper_final.py: the upload_file batch loop, the       *)
(* enrichment flow find_company_email, the resolver                       *)
(* search_company_website, the page scanner find_emails_on_page and the   *)
(* name cleaner clean_company_name.  Python strings are TLA+ strings;     *)
(* the network is an environment that answers every request with one of  *)
(* a bounded set of responses.                                            *)
(***************************************************************************)
EXTENDS Integers, Sequences, FiniteSets, TLC

VARIABLES
  rows,          \* the company column of the uploaded sheet, one cell per row
  net,           \* the responses the network may give to each kind of request
  idx,           \* upload_file: position of the row loop
  results,       \* upload_file: the result records appended so far
  pc,            \* control point of the row being processed
  company_name,  \* upload_file / find_company_email: the name being enriched
  clean_name,    \* search_company_website: the cleaned name
  q,             \* search_company_website: index of the next query template
  website,       \* find_company_email: what the resolver returned
  page,          \* find_company_email: index of the next contact path
  emails,        \* find_company_email: result of the last page scan
  ret,           \* the pair returned by find_company_email
  searches,      \* search requests of this enrichment, in order
  fetches,       \* page requests of this enrichment, in order
  lastSearch,    \* response to the last search request
  lastFetch,     \* response to the last page request
  slept          \* milliseconds of time.sleep since the last request

vars == <<rows, net, idx, results, pc, company_name, clean_name, q, website,
          page, emails, ret, searches, fetches, lastSearch, lastFetch, slept>>

(***************************************************************************)
(* Python string primitives                                                *)
(***************************************************************************)
None == "<None>"
NaN == "<NaN>"

Lowers == "abcdefghijklmnopqrstuvwxyz"
Uppers == "ABCDEFGHIJKLMNOPQRSTUVWXYZ"
Digits == "0123456789"

Char(s, i) == IF i >= 1 /\ i <= Len(s) THEN SubSeq(s, i, i) ELSE ""

CharsOf(s) == {Char(s, i) : i \in 1..Len(s)}

LowerSet == CharsOf(Lowers)
UpperSet == CharsOf(Uppers)
Letters == LowerSet \cup UpperSet
Alnum == Letters \cup CharsOf(Digits)
Whitespace == {" ", "\t"}

\* str.lower / str.upper, one character
LowerChar(c) ==
  IF c \in UpperSet
  THEN Char(Lowers, CHOOSE i \in 1..26 : Char(Uppers, i) = c)
  ELSE c

UpperChar(c) ==
  IF c \in LowerSet
  THEN Char(Uppers, CHOOSE i \in 1..26 : Char(Lowers, i) = c)
  ELSE c

RECURSIVE ToLower(_)
ToLower(s) == IF s = "" THEN "" ELSE LowerChar(Head(s)) \o ToLower(Tail(s))

RECURSIVE ToUpper(_)
ToUpper(s) == IF s = "" THEN "" ELSE UpperChar(Head(s)) \o ToUpper(Tail(s))

\* str.startswith / str.endswith / the `in` operator on strings
StartsWith(s, p) == Len(p) <= Len(s) /\ SubSeq(s, 1, Len(p)) = p

EndsWith(s, p) ==
  Len(p) <= Len(s) /\ SubSeq(s, Len(s) - Len(p) + 1, Len(s)) = p

Contains(s, sub) ==
  \E i \in 1..(Len(s) - Len(sub) + 1) : SubSeq(s, i, i + Len(sub) - 1) = sub

\* str.strip(): leading and trailing whitespace removed
RECURSIVE LStrip(_)
LStrip(s) ==
  IF s # "" /\ Head(s) \in Whitespace THEN LStrip(Tail(s)) ELSE s

RECURSIVE RStrip(_, _)
RStrip(s, chars) ==
  IF s # "" /\ Char(s, Len(s)) \in chars
  THEN RStrip(SubSeq(s, 1, Len(s) - 1), chars)
  ELSE s

Strip(s) == RStrip(LStrip(s), Whitespace)

\* str.split(sep): the pieces between the non-overlapping occurrences of sep
RECURSIVE SplitFrom(_, _, _, _)
SplitFrom(s, sep, start, i) ==
  IF i + Len(sep) - 1 > Len(s)
  THEN <<SubSeq(s, start, Len(s))>>
  ELSE IF SubSeq(s, i, i + Len(sep) - 1) = sep
       THEN <<SubSeq(s, start, i - 1)>>
              \o SplitFrom(s, sep, i + Len(sep), i + Len(sep))
       ELSE SplitFrom(s, sep, start, i + 1)

Split(s, sep) == SplitFrom(s, sep, 1, 1)

\* any(x in s for x in xs)
AnyIn(xs, s) == \E k \in 1..Len(xs) : Contains(s, xs[k])

(***************************************************************************)
(* Bounds and the input space                                              *)
(***************************************************************************)
\* longest sheet; sheets of more than one row are processed against SmallNet
MaxRows == 2

\* cells of the company column
NamePool ==
  {"Acme Inc", "Acme Co LLC", "Acme", "  bolt  limited ", "   ", NaN}

BatchNames == {"Acme Inc", "Bolt", "   "}

SearchResp(kind, status, anchors) ==
  [kind |-> kind, status |-> status, anchors |-> anchors]

PageResp(kind, status, body) == [kind |-> kind, status |-> status, body |-> body]

NoSearch == SearchResp("none", 0, <<>>)
NoFetch == PageResp("none", 0, "")

\* result pages of the primary engine, as the hrefs of their anchors in
\* document order
DdgError == SearchResp("error", 0, <<>>)
DdgBlocked == SearchResp("response", 403, <<"https://acme.com">>)
DdgNone ==
  SearchResp("response", 200,
    <<"https://duckduckgo.com/about", "/lite/?q=acme",
      "https://www.facebook.com/acme", "http://x/">>)
DdgAcme ==
  SearchResp("response", 200,
    <<"https://duckduckgo.com/about", "https://acme.com",
      "https://othersite.com">>)
DdgShop ==
  SearchResp("response", 200,
    <<"https://shop.io/?ref=google.com", "https://acme.com/shop/",
      "https://acme.com">>)
DdgB == SearchResp("response", 200, <<"", "https://b.com">>)

\* result pages of the secondary engine
GoogleError == SearchResp("error", 0, <<>>)
GoogleBlocked ==
  SearchResp("response", 429, <<"/url?q=https://acme.com/&sa=U">>)
GoogleNone ==
  SearchResp("response", 200,
    <<"/search?q=acme", "/url?q=https://www.facebook.com/acme&sa=U">>)
GoogleInsta ==
  SearchResp("response", 200,
    <<"/url?q=https://www.instagram.com/acme&sa=U",
      "/url?q=https://acme.com/&sa=U">>)
GoogleLocal ==
  SearchResp("response", 200,
    <<"https://www.google.com/preferences", "/url?q=http://localhost/&sa=U">>)

\* answers of a site to a page request
PageTimeout == PageResp("timeout", 0, "")
PageRefused == PageResp("request_error", 0, "")
PageBroken == PageResp("error", 0, "")
PageMissing == PageResp("response", 404, "write to sales@acme.com")
PagePlain == PageResp("response", 200, "<html>no address here</html>")
PageMixed ==
  PageResp("response", 200, "contact us at a@b.com or noreply@b.com")
PageBlockedOnly ==
  PageResp("response", 200, "mail NoReply@acme.com or info@example.com")
PageTwo == PageResp("response", 200, "sales@acme.com, Info@Acme.com")
PageMultiple == PageResp("response", 300, "choose: ask desk@acme.com")
PageOdd ==
  PageResp("response", 200, "Bob.S+x@mail.Ex-Corp.co.UK; %y@Q-r.s.Info|x")

FullNet ==
  [search |-> {DdgError, DdgBlocked, DdgNone, DdgAcme, DdgShop, DdgB},
   google |-> {GoogleError, GoogleBlocked, GoogleNone, GoogleInsta,
               GoogleLocal},
   pages  |-> {PageTimeout, PageRefused, PageBroken, PageMissing, PagePlain,
               PageMixed, PageBlockedOnly, PageTwo, PageMultiple, PageOdd}]

SmallNet ==
  [search |-> {DdgAcme},
   google |-> {GoogleNone},
   pages  |-> {PageTimeout, PageMixed}]

\* sequences over S of length 1..n
RECURSIVE SeqsUpTo(_, _)
SeqsUpTo(S, n) ==
  IF n = 0 THEN {}
  ELSE {<<x>> : x \in S}
         \cup SeqsUpTo(S, n - 1)
         \cup {Append(r, x) : r \in SeqsUpTo(S, n - 1), x \in S}

(***************************************************************************)
(* clean_company_name                                                      *)
(***************************************************************************)
suffixes ==
  <<" LLC", " Inc", " Corp", " Corporation", " Ltd", " Limited", " Co",
    " Company">>

\* the for-loop over suffixes: every suffix is tried in list order against
\* the name as left by the earlier iterations (there is no break)
RECURSIVE StripSuffixes(_, _)
StripSuffixes(name, i) ==
  IF i > Len(suffixes) THEN name
  ELSE StripSuffixes(
         IF EndsWith(ToUpper(name), ToUpper(suffixes[i]))
         THEN Strip(SubSeq(name, 1, Len(name) - Len(suffixes[i])))
         ELSE name,
         i + 1)

clean_company_name(name) ==
  IF name = NaN \/ name = None THEN None
  ELSE IF Strip(name) = "" THEN None
  ELSE LET n == StripSuffixes(Strip(name), 1)
       IN IF n # "" THEN n ELSE None

(***************************************************************************)
(* EMAIL_PATTERN and find_emails_on_page                                   *)
(***************************************************************************)
\* character classes of EMAIL_PATTERN; \w is [A-Za-z0-9_]
WordChars == Alnum \cup {"_"}
LocalChars == Alnum \cup {".", "_", "%", "+", "-"}
DomainChars == Alnum \cup {".", "-"}
TldChars == Letters \cup {"|"}

\* length of the longest run of characters of class cls starting at s[i]
RunLen(s, i, cls) ==
  IF i > Len(s) THEN 0
  ELSE CHOOSE n \in 0..(Len(s) - i + 1) :
         /\ \A j \in i..(i + n - 1) : Char(s, j) \in cls
         /\ Char(s, i + n) \notin cls

\* \b holds before s[i]: exactly one of s[i-1], s[i] is a word character
Boundary(s, i) == (Char(s, i - 1) \in WordChars) # (Char(s, i) \in WordChars)

Max(S) == CHOOSE m \in S : \A n \in S : n <= m

\* index of the last character of the match of EMAIL_PATTERN that starts at
\* s[i], 0 when there is none.  [local]+ must run up to the "@"; [domain]+ is
\* greedy, so the engine backtracks from the rightmost "." of the domain run,
\* and for that "." from the longest run of [A-Z|a-z] followed by \b.
MatchEnd(s, i) ==
  LET L == RunLen(s, i, LocalChars)
      d == i + L + 1
      D == RunLen(s, d, DomainChars)
      dots == {p \in (d + 1)..(d + D - 1) :
                 /\ Char(s, p) = "."
                 /\ \E k \in 2..RunLen(s, p + 1, TldChars) :
                      Boundary(s, p + k + 1)}
  IN IF ~Boundary(s, i) \/ L = 0 \/ Char(s, i + L) # "@" \/ dots = {}
     THEN 0
     ELSE LET p == Max(dots)
          IN p + Max({k \in 2..RunLen(s, p + 1, TldChars) :
                        Boundary(s, p + k + 1)})

\* EMAIL_PATTERN.findall: leftmost non-overlapping matches, left to right,
\* scanning from s[i]
FindAll(s, i) ==
  LET scan[j \in 1..(Len(s) + 1)] ==
        IF j > Len(s) THEN <<>>
        ELSE LET e == MatchEnd(s, j)
             IN IF e = 0 THEN scan[j + 1]
                ELSE <<SubSeq(s, j, e)>> \o scan[e + 1]
  IN scan[i]

Range(f) == {f[k] : k \in 1..Len(f)}

blocklist ==
  <<"example.com", "test.com", "placeholder", "yoursite", "yourdomain",
    "sampleemail", "noreply", "no-reply", "donotreply", "do-not-reply",
    "admin@admin", "test@test", "user@user", "email@email",
    "support@example", "info@example", "contact@example">>

Blocked(email_lower) == AnyIn(blocklist, email_lower)

email_domain(email_lower) ==
  IF Contains(email_lower, "@") THEN Split(email_lower, "@")[2] ELSE ""

website_domain(url) ==
  LET parts == Split(url, "/")
  IN IF Len(parts) > 2 THEN ToLower(parts[3]) ELSE ""

\* variant: only addresses related to the page's host pass the test
DomainAccepted_related(ed, wd) ==
  /\ ed # ""
  /\ \/ Contains(wd, ed)
     \/ Contains(ed, wd)

\* the domain-affinity test of the filter
DomainAccepted(ed, wd) ==
  /\ ed # ""
  /\ \/ Contains(wd, ed)
     \/ Contains(ed, wd)
     \/ Len(Split(ed, ".")) >= 2

\* variant: an address of the page's own domain is kept before the blocklist
\* is consulted
FilterEmails_affinityFirst(found, url) ==
  LET wd == website_domain(url)
  IN {email \in found :
        \/ /\ email_domain(ToLower(email)) # ""
           /\ Contains(wd, email_domain(ToLower(email)))
        \/ /\ ~Blocked(ToLower(email))
           /\ DomainAccepted(email_domain(ToLower(email)), wd)}

\* the filter loop: the addresses of `found` that are kept for page `url`
FilterEmails(found, url) ==
  LET wd == website_domain(url)
  IN {email \in found :
        /\ ~Blocked(ToLower(email))
        /\ DomainAccepted(email_domain(ToLower(email)), wd)}

\* set(EMAIL_PATTERN.findall(response.text)); the scan of a body of the
\* network pools is evaluated once
KnownBodies == {r.body : r \in FullNet.pages \cup SmallNet.pages}

ExtractCache == {<<b, Range(FindAll(b, 1))>> : b \in KnownBodies}

extract(body) ==
  IF body \in KnownBodies
  THEN (CHOOSE c \in ExtractCache : c[1] = body)[2]
  ELSE Range(FindAll(body, 1))

\* a response of requests.get: a raised exception, or a status with content
IsException(resp) == resp.kind \in {"timeout", "request_error", "error"}

\* response.raise_for_status() raises for the 4xx and 5xx statuses
RaisesForStatus(resp) == resp.status >= 400 /\ resp.status < 600

\* variant: the status of the response is not looked at
find_emails_on_page_anyStatus(url, resp) ==
  IF IsException(resp) THEN {}
  ELSE FilterEmails(extract(resp.body), url)

\* find_emails_on_page(url) given the response to its GET: the set behind
\* the returned list(set(filtered_emails)); every except clause returns []
find_emails_on_page(url, resp) ==
  IF IsException(resp) \/ RaisesForStatus(resp) THEN {}
  ELSE FilterEmails(extract(resp.body), url)

(***************************************************************************)
(* search_company_website: link checks                                     *)
(***************************************************************************)
excluded ==
  <<"duckduckgo.com", "google.com", "bing.com", "yahoo.com", "facebook.com",
    "twitter.com", "linkedin.com", "instagram.com">>

google_excluded == <<"google.com", "facebook.com", "twitter.com", "linkedin.com">>

HostOf(href) ==
  LET parts == Split(href, "/")
  IN IF Len(parts) > 2 THEN parts[3] ELSE ""

\* the test applied to an anchor of a primary-engine result page
ValidLink(href) ==
  /\ href # ""
  /\ StartsWith(href, "http")
  /\ ~AnyIn(excluded, ToLower(href))
  /\ Contains(HostOf(href), ".")
  /\ Len(HostOf(href)) > 3

\* variant: the scan keeps going and the last valid anchor wins
RECURSIVE LastValid(_, _)
LastValid(hrefs, i) ==
  IF i > Len(hrefs) THEN None
  ELSE IF ValidLink(hrefs[i]) /\ LastValid(hrefs, i + 1) = None THEN hrefs[i]
  ELSE LastValid(hrefs, i + 1)

\* first element of the sequence `hrefs` that satisfies the test, else None
RECURSIVE FirstValid(_, _)
FirstValid(hrefs, i) ==
  IF i > Len(hrefs) THEN None
  ELSE IF ValidLink(hrefs[i]) THEN hrefs[i]
  ELSE FirstValid(hrefs, i + 1)

\* the destination carried by a secondary-engine redirect anchor
actual_url(href) == Split(Split(href, "/url?q=")[2], "&")[1]

GoogleValid(href) ==
  /\ Contains(href, "/url?q=")
  /\ StartsWith(actual_url(href), "http")
  /\ ~AnyIn(google_excluded, ToLower(actual_url(href)))

RECURSIVE FirstGoogle(_, _)
FirstGoogle(hrefs, i) ==
  IF i > Len(hrefs) THEN None
  ELSE IF GoogleValid(hrefs[i]) THEN actual_url(hrefs[i])
  ELSE FirstGoogle(hrefs, i + 1)

(***************************************************************************)
(* The state machine                                                       *)
(***************************************************************************)
search_queries(name) ==
  <<"\"" \o name \o "\" website", name \o " official site",
    name \o " company website", name>>

ddg_url(query) == "https://lite.duckduckgo.com/lite/?q=" \o query

google_url(name) == "https://www.google.com/search?q=" \o name \o "+website"

contact_pages ==
  <<"/contact", "/contact-us", "/contactus", "/contact_us", "/about",
    "/about-us", "/aboutus", "/about_us", "/team", "/staff", "/people",
    "/info", "/information", "/support", "/help">>

base_url(w) == RStrip(w, {"/"})

contact_url(w, k) == base_url(w) \o contact_pages[k]

\* what one primary-engine attempt finds: the first valid anchor of a 200
\* page; None for another status or when the attempt raises
ddg_result(resp) ==
  IF IsException(resp) THEN None
  ELSE IF resp.status = 200 THEN FirstValid(resp.anchors, 1)
  ELSE None

google_result(resp) ==
  IF IsException(resp) THEN None
  ELSE IF resp.status = 200 THEN FirstGoogle(resp.anchors, 1)
  ELSE None

\* Python truthiness of an optional string
Truthy(x) == x # None /\ x # ""

IsBlank(cell) == cell = NaN \/ Strip(cell) = ""

Locals ==
  /\ company_name = None /\ clean_name = None /\ q = 0 /\ website = None
  /\ page = 0 /\ emails = {} /\ ret = <<None, None>>
  /\ searches = <<>> /\ fetches = <<>>
  /\ lastSearch = NoSearch /\ lastFetch = NoFetch

\* upload_file before the row loop.  A one-row sheet is processed against
\* every response of FullNet; sheets of up to MaxRows rows against SmallNet.
Init ==
  /\ \/ rows \in {<<n>> : n \in NamePool} /\ net = FullNet
     \/ rows \in SeqsUpTo(BatchNames, MaxRows) /\ net = SmallNet
  /\ idx = 1 /\ results = <<>> /\ pc = "row" /\ slept = 0
  /\ Locals

\* upload_file: a row whose cell is missing or blank is skipped
SkipRow ==
  /\ pc = "row" /\ idx <= Len(rows) /\ IsBlank(rows[idx])
  /\ idx' = idx + 1
  /\ UNCHANGED <<rows, net, results, pc, company_name, clean_name, q,
                 website, page, emails, ret, searches, fetches, lastSearch,
                 lastFetch, slept>>

\* upload_file: the row's name is trimmed and find_company_email is called
BeginRow ==
  /\ pc = "row" /\ idx <= Len(rows) /\ ~IsBlank(rows[idx])
  /\ company_name' = Strip(rows[idx])
  /\ pc' = "enrich"
  /\ UNCHANGED <<rows, net, idx, results, clean_name, q, website, page,
                 emails, ret, searches, fetches, lastSearch, lastFetch,
                 slept>>

\* find_company_email up to the first search request: the empty-name guard,
\* then search_company_website cleans the name and builds its queries
EnterSearch ==
  /\ pc = "enrich"
  /\ IF ~Truthy(company_name)
     THEN /\ ret' = <<None, None>> /\ pc' = "return"
          /\ UNCHANGED <<clean_name, q>>
     ELSE /\ clean_name' = clean_company_name(company_name)
          /\ IF ~Truthy(clean_name')
             THEN /\ ret' = <<None, "No website found">> /\ pc' = "return"
                  /\ q' = q
             ELSE /\ q' = 1 /\ pc' = "search" /\ ret' = ret
  /\ UNCHANGED <<rows, net, idx, results, company_name, website, page,
                 emails, searches, fetches, lastSearch, lastFetch, slept>>

\* variant: find_company_email has no outer handler, the exception reaches
\* the row handler of upload_file and the row is dropped
UnexpectedError_propagates ==
  /\ pc = "enrich"
  /\ idx' = idx + 1
  /\ pc' = "row"
  /\ company_name' = None
  /\ UNCHANGED <<rows, net, results, clean_name, q, website, page, emails,
                 ret, searches, fetches, lastSearch, lastFetch, slept>>

\* an exception raised in the body of find_company_email outside the inner
\* handlers (here: at its first statement) reaches its outer handler
UnexpectedError ==
  /\ pc = "enrich"
  /\ ret' = <<None, "Error: " \o "unexpected">>
  /\ pc' = "return"
  /\ UNCHANGED <<rows, net, idx, results, company_name, clean_name, q,
                 website, page, emails, searches, fetches, lastSearch,
                 lastFetch, slept>>

\* variant: a primary request that raised abandons the remaining templates
SearchQuery_earlyFallback ==
  /\ pc = "search"
  /\ \E resp \in net.search :
       LET url == ddg_url(search_queries(clean_name)[q])
           found == ddg_result(resp)
       IN /\ lastSearch' = resp
          /\ searches' = Append(searches, [url |-> url, found |-> found])
          /\ IF found # None
             THEN /\ website' = found /\ pc' = "resolved"
                  /\ slept' = 0 /\ q' = q
             ELSE /\ slept' = IF IsException(resp) THEN 0 ELSE 1000
                  /\ q' = q + 1
                  /\ pc' = IF q = Len(search_queries(clean_name))
                              \/ IsException(resp)
                           THEN "google" ELSE "search"
                  /\ website' = website
  /\ UNCHANGED <<rows, net, idx, results, company_name, clean_name, page,
                 emails, ret, fetches, lastFetch>>

\* variant: a template answered with a non-200 status is requested again
SearchQuery_retryStatus ==
  /\ pc = "search"
  /\ \E resp \in net.search :
       LET url == ddg_url(search_queries(clean_name)[q])
           found == ddg_result(resp)
       IN /\ lastSearch' = resp
          /\ searches' = Append(searches, [url |-> url, found |-> found])
          /\ IF found # None
             THEN /\ website' = found /\ pc' = "resolved"
                  /\ slept' = 0 /\ q' = q
             ELSE /\ slept' = IF IsException(resp) THEN 0 ELSE 1000
                  /\ q' = IF resp.kind = "response" /\ resp.status # 200
                          THEN q ELSE q + 1
                  /\ pc' = IF q' > Len(search_queries(clean_name))
                           THEN "google" ELSE "search"
                  /\ website' = website
  /\ UNCHANGED <<rows, net, idx, results, company_name, clean_name, page,
                 emails, ret, fetches, lastFetch>>

\* one iteration of the query loop of search_company_website
SearchQuery ==
  /\ pc = "search"
  /\ \E resp \in net.search :
       LET url == ddg_url(search_queries(clean_name)[q])
           found == ddg_result(resp)
       IN /\ lastSearch' = resp
          /\ searches' = Append(searches, [url |-> url, found |-> found])
          /\ IF found # None
             THEN /\ website' = found /\ pc' = "resolved"
                  /\ slept' = 0 /\ q' = q
             ELSE /\ slept' = IF IsException(resp) THEN 0 ELSE 1000
                  /\ q' = q + 1
                  /\ pc' = IF q = Len(search_queries(clean_name))
                           THEN "google" ELSE "search"
                  /\ website' = website
  /\ UNCHANGED <<rows, net, idx, results, company_name, clean_name, page,
                 emails, ret, fetches, lastFetch>>

\* the secondary-engine fallback of search_company_website
GoogleFallback ==
  /\ pc = "google"
  /\ \E resp \in net.google :
       LET found == google_result(resp)
       IN /\ lastSearch' = resp
          /\ searches' = Append(searches,
                                [url |-> google_url(clean_name),
                                 found |-> found])
          /\ website' = found
  /\ slept' = 0
  /\ pc' = "resolved"
  /\ UNCHANGED <<rows, net, idx, results, company_name, clean_name, q, page,
                 emails, ret, fetches, lastFetch>>

\* find_company_email: the resolver returned nothing
NoWebsite ==
  /\ pc = "resolved" /\ ~Truthy(website)
  /\ ret' = <<None, "No website found">>
  /\ pc' = "return"
  /\ UNCHANGED <<rows, net, idx, results, company_name, clean_name, q,
                 website, page, emails, searches, fetches, lastSearch,
                 lastFetch, slept>>

\* variant: the main-page branch does not return and the contact pages are
\* tried all the same
FetchMain_noReturn ==
  /\ pc = "resolved" /\ Truthy(website)
  /\ \E resp \in net.pages :
       /\ lastFetch' = resp
       /\ emails' = find_emails_on_page(website, resp)
       /\ fetches' = Append(fetches, [url |-> website, found |-> emails'])
       /\ IF emails' # {}
          THEN \E e \in emails' : ret' = <<e, "Main page: " \o website>>
          ELSE ret' = ret
  /\ page' = 1 /\ pc' = "contact"
  /\ slept' = 0
  /\ UNCHANGED <<rows, net, idx, results, company_name, clean_name, q,
                 website, searches, lastSearch>>

\* find_company_email: the main page is scanned
FetchMain ==
  /\ pc = "resolved" /\ Truthy(website)
  /\ \E resp \in net.pages :
       /\ lastFetch' = resp
       /\ emails' = find_emails_on_page(website, resp)
       /\ fetches' = Append(fetches, [url |-> website, found |-> emails'])
       /\ IF emails' # {}
          THEN /\ \E e \in emails' :
                    ret' = <<e, "Main page: " \o website>>
               /\ pc' = "return" /\ page' = page
          ELSE /\ page' = 1 /\ pc' = "contact" /\ ret' = ret
  /\ slept' = 0
  /\ UNCHANGED <<rows, net, idx, results, company_name, clean_name, q,
                 website, searches, lastSearch>>

\* variant: the loop remembers a hit but does not leave
FetchContact_noStop ==
  /\ pc = "contact" /\ page <= Len(contact_pages)
  /\ \E resp \in net.pages :
       LET url == contact_url(website, page)
       IN /\ lastFetch' = resp
          /\ emails' = find_emails_on_page(url, resp)
          /\ fetches' = Append(fetches, [url |-> url, found |-> emails'])
          /\ IF emails' # {}
             THEN \E e \in emails' : ret' = <<e, "Contact page: " \o url>>
             ELSE ret' = ret
  /\ slept' = 500 /\ page' = page + 1 /\ pc' = "contact"
  /\ UNCHANGED <<rows, net, idx, results, company_name, clean_name, q,
                 website, searches, lastSearch>>

\* variant: a request that raised is repeated once before moving on
FetchContact_retry ==
  /\ pc = "contact" /\ page <= Len(contact_pages)
  /\ \E resp \in net.pages :
       LET url == contact_url(website, page)
       IN /\ lastFetch' = resp
          /\ emails' = find_emails_on_page(url, resp)
          /\ fetches' = Append(fetches, [url |-> url, found |-> emails'])
          /\ IF emails' # {}
             THEN /\ \E e \in emails' :
                       ret' = <<e, "Contact page: " \o url>>
                  /\ pc' = "return" /\ page' = page /\ slept' = 0
             ELSE /\ slept' = 500
                  /\ page' = IF IsException(resp) /\ fetches[Len(fetches)].url # url
                             THEN page ELSE page + 1
                  /\ pc' = "contact" /\ ret' = ret
  /\ UNCHANGED <<rows, net, idx, results, company_name, clean_name, q,
                 website, searches, lastSearch>>

\* find_company_email: one iteration of the contact-page loop
FetchContact ==
  /\ pc = "contact" /\ page <= Len(contact_pages)
  /\ \E resp \in net.pages :
       LET url == contact_url(website, page)
       IN /\ lastFetch' = resp
          /\ emails' = find_emails_on_page(url, resp)
          /\ fetches' = Append(fetches, [url |-> url, found |-> emails'])
          /\ IF emails' # {}
             THEN /\ \E e \in emails' :
                       ret' = <<e, "Contact page: " \o url>>
                  /\ pc' = "return" /\ page' = page /\ slept' = 0
             ELSE /\ slept' = 500 /\ page' = page + 1
                  /\ pc' = "contact" /\ ret' = ret
  /\ UNCHANGED <<rows, net, idx, results, company_name, clean_name, q,
                 website, searches, lastSearch>>

\* find_company_email: every contact path was tried
NoEmails ==
  /\ pc = "contact" /\ page > Len(contact_pages)
  /\ ret' = <<None, "No emails found on " \o website>>
  /\ pc' = "return"
  /\ UNCHANGED <<rows, net, idx, results, company_name, clean_name, q,
                 website, page, emails, searches, fetches, lastSearch,
                 lastFetch, slept>>

\* variant: the returned pair is stored as it is
result_row_raw(cell, name, r) ==
  [row |-> cell, found_email |-> r[1], email_source |-> r[2],
   processed_company_name |-> name]

\* variant: the address column is decided by the source of the pair
result_row_bySource(cell, name, r) ==
  [row |-> cell,
   found_email |-> IF Truthy(r[2]) THEN r[1] ELSE "Not found",
   email_source |-> IF Truthy(r[2]) THEN r[2] ELSE "N/A",
   processed_company_name |-> name]

\* the record upload_file builds from the returned pair
result_row(cell, name, r) ==
  [row |-> cell,
   found_email |-> IF Truthy(r[1]) THEN r[1] ELSE "Not found",
   email_source |-> IF Truthy(r[2]) THEN r[2] ELSE "N/A",
   processed_company_name |-> name]

\* upload_file: the record is appended and the loop moves on; the locals of
\* the finished call are gone
AppendResult ==
  /\ pc = "return"
  /\ results' = Append(results, result_row(rows[idx], company_name, ret))
  /\ slept' = 2000
  /\ idx' = idx + 1
  /\ pc' = "row"
  /\ company_name' = None /\ clean_name' = None /\ q' = 0 /\ website' = None
  /\ page' = 0 /\ emails' = {} /\ ret' = <<None, None>>
  /\ searches' = <<>> /\ fetches' = <<>>
  /\ lastSearch' = NoSearch /\ lastFetch' = NoFetch
  /\ UNCHANGED <<rows, net>>

\* upload_file: the loop is over and the results are written out
Finish ==
  /\ pc = "row" /\ idx > Len(rows)
  /\ pc' = "done"
  /\ UNCHANGED <<rows, net, idx, results, company_name, clean_name, q,
                 website, page, emails, ret, searches, fetches, lastSearch,
                 lastFetch, slept>>

Next ==
  \/ SkipRow \/ BeginRow \/ EnterSearch \/ UnexpectedError \/ SearchQuery
  \/ GoogleFallback \/ NoWebsite \/ FetchMain \/ FetchContact \/ NoEmails
  \/ AppendResult \/ Finish

Spec == Init /\ [][Next]_vars

(***************************************************************************)
(* Properties                                                              *)
(***************************************************************************)
LastOf(seq) == seq[Len(seq)]

MainLabel(w) == "Main page: " \o w

\* C1: when the resolver returned a website and the scan of that page keeps
\* at least one address, find_company_email returns one of the addresses the
\* filter keeps for that page, labelled "Main page: <website>", and no
\* contact page is requested.
C1_MainPageResult ==
  (Len(fetches) >= 1 /\ fetches[1].found # {}) =>
    /\ pc = "return"
    /\ fetches[1].url = website
    /\ ~IsException(lastFetch)
    /\ ret[1] \in FilterEmails(Range(FindAll(lastFetch.body, 1)), website)
    /\ ret[2] = MainLabel(website)
    /\ Len(fetches) = 1

C1_Witness ==
  /\ pc = "return" /\ website = "https://acme.com"
  /\ Len(searches) = 1 /\ lastFetch = PageMixed
  /\ ret = <<"a@b.com", "Main page: https://acme.com">>

\* C2: after a main page without addresses the contact paths are requested
\* in list order; every request but the last found nothing, a request that
\* finds an address ends the enrichment with one of its addresses labelled
\* "Contact page: <its url>", and nothing is requested after it.
C2_ContactOrder ==
  /\ \A i \in 1..Len(fetches) :
       /\ i >= 2 =>
            /\ i - 1 <= 15
            /\ fetches[i].url
                 = RStrip(website, {"/"}) \o contact_pages[i - 1]
       /\ i < Len(fetches) => fetches[i].found = {}
  /\ (Len(fetches) >= 2 /\ LastOf(fetches).found # {}) =>
       /\ pc = "return"
       /\ ret[1] \in LastOf(fetches).found
       /\ ret[2] = "Contact page: " \o LastOf(fetches).url
  /\ (pc = "contact" /\ Len(fetches) >= 1) => LastOf(fetches).found = {}

C2_Witness ==
  /\ pc = "return" /\ Len(fetches) = 3
  /\ fetches[2].url = "https://acme.com/contact"
  /\ ret = <<"a@b.com", "Contact page: https://acme.com/contact-us">>

AllNone(log) == \A i \in 1..Len(log) : log[i].found = None

\* C3: when all four templates and the secondary engine gave no website,
\* find_company_email returns (None, "No website found"), the record built
\* from it has found_email "Not found" and email_source "No website found",
\* and no page is requested.
C3_NoWebsite ==
  [][(Len(searches) = 5 /\ AllNone(searches)) =>
       /\ fetches = <<>> /\ fetches' = <<>>
       /\ pc = "resolved" => (pc' = "return"
                              /\ ret' = <<None, "No website found">>)
       /\ pc = "return" =>
            /\ ret = <<None, "No website found">>
            /\ Len(results') = Len(results) + 1
            /\ LastOf(results').found_email = "Not found"
            /\ LastOf(results').email_source = "No website found"]_vars

C3_Witness ==
  /\ pc = "done" /\ Len(results) = 1
  /\ results[1].found_email = "Not found"
  /\ results[1].email_source = "No website found"

\* C4: the resolver's queries go out in template order, a query is sent only
\* while every earlier one found nothing, and a primary-engine page with a
\* valid link ends the resolver with the first valid link of that page.
C4_FirstTemplateWins ==
  /\ \A i \in 1..Len(searches) :
       /\ i <= 4 =>
            searches[i].url = ddg_url(search_queries(clean_name)[i])
       /\ i < Len(searches) => searches[i].found = None
  /\ Len(searches) <= 5
  /\ (Len(searches) \in 1..4 /\ pc = "resolved") =>
       /\ lastSearch.status = 200
       /\ \E i \in 1..Len(lastSearch.anchors) :
            /\ lastSearch.anchors[i] = website
            /\ ValidLink(website)
            /\ \A j \in 1..(i - 1) : ~ValidLink(lastSearch.anchors[j])
  /\ (pc \in {"search", "google"} /\ Len(searches) >= 1) =>
       \/ IsException(lastSearch)
       \/ lastSearch.status # 200
       \/ \A i \in 1..Len(lastSearch.anchors) :
            ~ValidLink(lastSearch.anchors[i])

C4_Witness ==
  /\ pc = "resolved" /\ Len(searches) = 2
  /\ searches[1].found = None
  /\ lastSearch = DdgAcme /\ website = "https://acme.com"

\* C5: the records appended so far are exactly the non-blank rows handled so
\* far, one record each and in sheet order, up to the end of the sheet, and
\* an exception that escapes the flow is returned as
\* (None, "Error: <message>") and recorded like any other result.
C5_OneRecordPerRow ==
  LET handled == SubSeq(rows, 1, idx - 1)
      named == SelectSeq(handled, LAMBDA c : ~IsBlank(c))
  IN /\ idx \in 1..(Len(rows) + 1)
     /\ Len(results) = Len(named)
     /\ \A k \in 1..Len(results) : results[k].row = named[k]
     /\ pc = "done" => idx = Len(rows) + 1
     /\ (pc = "return" /\ StartsWith(ret[2], "Error: ")) => ret[1] = None
     /\ \A k \in 1..Len(results) :
          StartsWith(results[k].email_source, "Error: ")
            => results[k].found_email = "Not found"

C5_Witness ==
  /\ pc = "done" /\ Len(results) = 2
  /\ results[1].row = "Bolt" /\ results[2].row = "Acme Inc"
  /\ results[1].email_source = "Error: unexpected"
  /\ results[2].email_source = "Contact page: https://acme.com/help"

\* C6: every website the resolver returns starts with "http" and has a host
\* that contains a dot and none of the excluded domains.
C6_ResolvedUrlValid ==
  (pc = "resolved" /\ website # None) =>
    /\ StartsWith(website, "http")
    /\ Contains(HostOf(website), ".")
    /\ ~AnyIn(excluded, ToLower(HostOf(website)))

\* C7: no address kept by the filter, returned or recorded contains a
\* blocklist substring in its lowercased form, whatever the page's host; the
\* page "contact us at a@b.com or noreply@b.com" yields exactly {a@b.com}.
NotBlocklisted(e) ==
  LET lowered == ToLower(e)
  IN \A k \in 1..Len(blocklist) : ~Contains(lowered, blocklist[k])

C7_BlocklistAlwaysRejects ==
  /\ \A e \in emails : NotBlocklisted(e)
  /\ ret[1] # None => NotBlocklisted(ret[1])
  /\ \A k \in 1..Len(results) :
       results[k].found_email # "Not found"
         => NotBlocklisted(results[k].found_email)
  /\ lastFetch = PageMixed => emails = {"a@b.com"}

C7_Witness ==
  /\ website = "https://b.com" /\ Len(fetches) = 1
  /\ fetches[1].url = "https://b.com"
  /\ lastFetch.body = "contact us at a@b.com or noreply@b.com"
  /\ emails = {"a@b.com"} /\ ret[1] = "a@b.com"

\* C8: the cleaned name is the trimmed name with at most one trailing
\* legal-entity suffix removed.
OneSuffixRemoved(t) ==
  {t} \cup {Strip(SubSeq(t, 1, Len(t) - Len(suffixes[k]))) :
              k \in {j \in 1..Len(suffixes) :
                       EndsWith(ToUpper(t), ToUpper(suffixes[j]))}}

C8_SingleSuffix ==
  clean_name # None => clean_name \in OneSuffixRemoved(company_name)

\* C9: the record appended for a company that was searched carries, as
\* processed_company_name, the cleaned name the queries were built from.
C9_ProcessedIsCleaned ==
  [][(pc = "return" /\ Len(searches) >= 1) =>
       /\ searches[1].url = ddg_url(search_queries(clean_name)[1])
       /\ Len(results') = Len(results) + 1
       /\ LastOf(results').processed_company_name = clean_name]_vars

\* C10: (None, "No emails found on <website>") is returned only after the
\* main page and each of the 15 contact paths were requested, in that order
\* and once each; no URL is requested twice within one enrichment.
C10_ExhaustedOnce ==
  /\ (pc = "return" /\ StartsWith(ret[2], "No emails found on ")) =>
       /\ ret = <<None, "No emails found on " \o website>>
       /\ Len(fetches) = 16
       /\ fetches[1].url = website
       /\ \A k \in 1..15 :
            fetches[k + 1].url
              = RStrip(website, {"/"}) \o contact_pages[k]
  /\ \A i, j \in 1..Len(fetches) :
       i # j => fetches[i].url # fetches[j].url
  /\ \A i, j \in 1..Len(searches) :
       i # j => searches[i].url # searches[j].url

C10_Witness ==
  /\ pc = "return" /\ Len(fetches) = 16
  /\ website = "https://acme.com/shop/"
  /\ LastOf(fetches).url = "https://acme.com/shop/help"
  /\ ret = <<None, "No emails found on https://acme.com/shop/">>

\* C11: within one resolve call the secondary engine is requested at most
\* once, and only as the fifth request, after each of the four primary
\* templates was requested in order and yielded no valid link (whether the
\* response was a non-200, a page without valid anchors, or an exception).
C11_SecondaryAfterFour ==
  /\ \A i \in 1..Len(searches) :
       searches[i].url = google_url(clean_name) =>
         /\ i = Len(search_queries(clean_name)) + 1
         /\ i = Len(searches)
         /\ \A j \in 1..(i - 1) :
              /\ searches[j].url = ddg_url(search_queries(clean_name)[j])
              /\ searches[j].found = None
  /\ pc = "google" =>
       /\ Len(searches) = Len(search_queries(clean_name))
       /\ AllNone(searches)

C11_Witness ==
  /\ pc = "resolved"
  /\ Len(searches) = 5
  /\ searches[5].url = google_url(clean_name)
  /\ searches[4].url = ddg_url(search_queries(clean_name)[4])
  /\ lastSearch = GoogleInsta

\* C12: whenever a query attempt has failed and the resolver is about to
\* issue the next one (the next primary template or the secondary engine),
\* the fixed one-second delay has been slept since the failed request,
\* whichever way that attempt failed.
C12_DelayAfterEveryFailure ==
  (pc \in {"search", "google"} /\ Len(searches) >= 1) => slept = 1000

\* the anchor test as C13 words it: the exclusion is decided on the host
HostNotExcluded(href) ==
  LET host == HostOf(href)
  IN /\ href # ""
     /\ StartsWith(href, "http")
     /\ ~AnyIn(excluded, ToLower(host))
     /\ Contains(host, ".")
     /\ Len(host) > 3

RECURSIVE FirstHostNotExcluded(_, _)
FirstHostNotExcluded(hrefs, i) ==
  IF i > Len(hrefs) THEN None
  ELSE IF HostNotExcluded(hrefs[i]) THEN hrefs[i]
  ELSE FirstHostNotExcluded(hrefs, i + 1)

\* C13: a website resolved from a primary result page is the first anchor of
\* that page, in document order, whose href starts with "http" and whose
\* host is not excluded, contains a dot and is longer than 3 characters; an
\* excluded name in the path or query of an href does not make it skipped.
C13_FirstHostValidAnchor ==
  (pc = "resolved" /\ Len(searches) \in 1..Len(search_queries(clean_name)))
    => website = FirstHostNotExcluded(lastSearch.anchors, 1)

\* a request that raised, or whose status raise_for_status rejects (4xx, 5xx)
FetchFailed(resp) == IsException(resp) \/ resp.status \in 400..599

\* a request that raised, or whose status is anything but 2xx
FetchFailedAny(resp) == IsException(resp) \/ resp.status \notin 200..299

\* what C14 requires of the state after a page request that counts as failed:
\* nothing was taken from the page, the next request is the next contact
\* path (/contact after the homepage, path k+1 after path k), and after the
\* last path the call returns "No emails found", never an error result
ContinuesAfterFailure ==
  /\ LastOf(fetches).found = {}
  /\ emails = {}
  /\ page = Len(fetches)
  /\ \/ pc = "contact"
     \/ /\ pc = "return"
        /\ page = Len(contact_pages) + 1
        /\ ret = <<None, "No emails found on " \o website>>

RootOf(url) ==
  LET parts == Split(url, "/")
  IN parts[1] \o "//" \o HostOf(url)

\* C15: every contact-page URL requested is the root (scheme and host) of
\* the resolved website followed by exactly one suffix of the fixed list,
\* also when the resolved website URL carries a path or a query.
C15_ContactUrlAtRoot ==
  \A i \in 2..Len(fetches) :
    \E k \in 1..Len(contact_pages) :
      fetches[i].url = RootOf(website) \o contact_pages[k]

\* the source labels of a record that carries an address
PageSource(s) == StartsWith(s, "Main page: ") \/ StartsWith(s, "Contact page: ")

\* the source labels of a record without an address
NoEmailSource(s) ==
  \/ s = "No website found"
  \/ StartsWith(s, "No emails found on ")
  \/ StartsWith(s, "Error: ")
  \/ s = "N/A"

\* C16: in every output record, found_email differs from "Not found" exactly
\* when email_source starts with "Main page: " or "Contact page: ", and a
\* record whose found_email is "Not found" has the source "No website
\* found", "No emails found on <url>", "Error: <message>" or "N/A".
C16_EmailIffPageSource ==
  \A k \in 1..Len(results) :
    /\ results[k].found_email # "Not found"
         <=> PageSource(results[k].email_source)
    /\ results[k].found_email = "Not found"
         => NoEmailSource(results[k].email_source)

C16_Witness ==
  /\ pc = "done"
  /\ Len(results) = 2
  /\ results[1].found_email = "a@b.com"
  /\ StartsWith(results[1].email_source, "Contact page: ")
  /\ results[2].found_email = "Not found"
  /\ results[2].email_source = "No emails found on https://acme.com"

\* the number of steps the current call can still take, at most
StepsLeft ==
  CASE pc = "row"      -> 30
    [] pc = "enrich"   -> 29
    [] pc = "search"   -> 28 - q
    [] pc = "google"   -> 23
    [] pc = "resolved" -> 22
    [] pc = "contact"  -> 21 - page
    [] pc = "return"   -> 1
    [] pc = "done"     -> 0

\* a natural number that bounds the steps left in the whole run
Measure == (Len(rows) + 1 - idx) * 40 + StepsLeft

\* C17: every step of a run strictly decreases a natural-number measure, so
\* every enrich call terminates, and no call ever issues more than 5 search
\* requests (4 templates + 1 secondary engine) or more than 16 page
\* requests (homepage + 15 contact paths), whatever the outcome of each
\* request.
C17_BoundedAndTerminating ==
  [][/\ Len(searches') <= Len(search_queries(clean_name)) + 1
     /\ Len(searches') <= 5
     /\ Len(fetches') <= Len(contact_pages) + 1
     /\ Len(fetches') <= 16
     /\ Measure' < Measure
     /\ Measure' >= 0]_vars

C17_Witness ==
  /\ pc = "return"
  /\ Len(searches) = 5
  /\ Len(fetches) = 16
  /\ ret[1] = None

\* C18: every address the pattern extracts from a scanned page has a domain
\* of at least two dot-delimited labels, so the domain-affinity test rejects
\* none of them: the filter's output for the page is the extracted set minus
\* the blocklisted addresses, whatever URL the page was requested at.
C18_AffinityNeverRejects ==
  (Len(fetches) >= 1 /\ ~FetchFailed(lastFetch)) =>
    LET found == Range(FindAll(lastFetch.body, 1))
    IN /\ \A e \in found :
            /\ email_domain(ToLower(e)) # ""
            /\ Len(Split(email_domain(ToLower(e)), ".")) >= 2
       /\ LastOf(fetches).found = {e \in found : NotBlocklisted(e)}

C18_Witness ==
  /\ Len(fetches) = 10
  /\ LastOf(fetches).url = "https://acme.com/shop/team"
  /\ lastFetch = PageOdd
  /\ LastOf(fetches).found = {"Bob.S+x@mail.Ex-Corp.co.UK", "y@Q-r.s.Info|x"}

====
